---- MODULE Spec2Model ----
(***************************************************************************)
(* A model of the numeric distractor generator of                          *)
(* src/QuestionGenerator/qgenv2_alpha.py: the CSV ingestor, the precision  *)
(* analyser, the label assigner, the seven-pass uniform sampler, the quiz  *)
(* assembler and the CSV serializer.                                       *)
(*                                                                         *)
(* Numbers.  A Python float is modelled as a sign and a magnitude counted  *)
(* in units of 10^-FD: [s |-> 1 or -1, m |-> Nat].  The sign is kept apart *)
(* from the magnitude because Python has a negative zero: float("-0.0")    *)
(* prints as "-0.0" and compares equal to 0.0.  A formatted numeral (the   *)
(* result of f"{x:.{d}f}") is the record [neg, digits, dec]: the sign      *)
(* character, the digits read as one integer, and the number of digits     *)
(* after the point.  A raw draw of random.uniform is an integer number of  *)
(* units.                                                                  *)
(***************************************************************************)
EXTENDS Integers, Sequences, FiniteSets, TLC

\* ------------------------------------------------------------------ bounds
\* Digits after the point that a modelled float can carry.
FD == 5
\* Largest number of answers N a caller asks for.
MaxN == 3
\* The sampler's max_attempts_factor argument (1000 by default in the code).
AttemptsFactor == 2
\* random() is drawn from the fractions k / DrawDiv, k in 0..DrawDiv.
DrawDiv == 4
\* Largest n for which the label functions are enumerated.
MaxLabelN == 100
\* A file of several rows is expanded while rows * N stays within MaxCells.
MaxCells == 4
\* Largest N asked for a question whose options are all equal.
MaxPoolN == 10

\* ------------------------------------------------------------ arithmetic
RECURSIVE Pow(_, _)
Pow(b, k) == IF k <= 0 THEN 1 ELSE b * Pow(b, k - 1)

Abs(x) == IF x < 0 THEN -x ELSE x

RECURSIVE ISqrtIn(_, _, _)
\* The largest r in lo..hi with r*r <= x (lo*lo <= x assumed).
ISqrtIn(x, lo, hi) ==
    IF lo >= hi THEN lo
    ELSE LET mid == (lo + hi + 1) \div 2
         IN  IF mid * mid <= x THEN ISqrtIn(x, mid, hi) ELSE ISqrtIn(x, lo, mid - 1)

ISqrt(x) == ISqrtIn(x, 0, 46340)

RECURSIVE SeqSum(_)
SeqSum(s) == IF s = <<>> THEN 0 ELSE Head(s) + SeqSum(Tail(s))

\* ------------------------------------------------------- floats and text
\* The float with value units * 10^-FD (never the negative zero).
FloatOf(units) == [s |-> IF units < 0 THEN -1 ELSE 1, m |-> Abs(units)]

\* The numeric value of a float, in units; both zeros have value 0.
Val(f) == f.s * f.m

\* Python's == on floats (and so set membership): by value.
FloatEq(a, b) == Val(a) = Val(b)

\* float(text) of a decimal numeral.
ParseFloat(str) ==
    [s |-> IF str.neg THEN -1 ELSE 1, m |-> str.digits * Pow(10, FD - str.dec)]

\* f"{f:.{d}f}": the numeral of f rounded to d digits after the point.  A
\* value halfway between two numerals is rounded by its binary expansion,
\* which the decimal value does not determine: tie says which way it goes.
Format(f, d, tie) ==
    LET step == Pow(10, FD - d)
        q == f.m \div step
        r == f.m % step
        up == (2 * r > step) \/ (2 * r = step /\ tie)
    IN  [neg |-> f.s < 0, digits |-> IF up THEN q + 1 ELSE q, dec |-> d]

RECURSIVE DecimalsOf(_, _)
\* -Decimal(str(val)).normalize().as_tuple().exponent when that is positive:
\* the least d such that val has at most d digits after the point.
DecimalsOf(f, d) ==
    IF d >= FD \/ f.m % Pow(10, FD - d) = 0 THEN d ELSE DecimalsOf(f, d + 1)

RECURSIVE get_max_decimals_from(_, _)
get_max_decimals_from(options, max_dp) ==
    IF options = <<>> THEN max_dp
    ELSE LET dp == DecimalsOf(Head(options), 0)
         IN  get_max_decimals_from(Tail(options), IF dp > max_dp THEN dp ELSE max_dp)

get_max_decimals_in_original(options) == get_max_decimals_from(options, 0)

\* ----------------------------------------------------------------- labels
Letters == << "A", "B", "C", "D", "E", "F", "G", "H", "I", "J", "K", "L", "M",
              "N", "O", "P", "Q", "R", "S", "T", "U", "V", "W", "X", "Y", "Z" >>

RECURSIVE get_label_length_from(_, _)
get_label_length_from(n, length) ==
    IF Pow(26, length) < n THEN get_label_length_from(n, length + 1) ELSE length

\* The length when the loop runs while 26**length <= n.
get_label_length_inclusive(n) == get_label_length_from(n + 1, 1)

get_label_length(n) == get_label_length_from(n, 1)

RECURSIVE index_to_label_chars_undivided(_, _)
\* A chars list whose loop leaves idx as it is: every letter is idx % 26.
index_to_label_chars_undivided(idx, length) ==
    IF length <= 0 THEN <<>>
    ELSE <<Letters[(idx % 26) + 1]>> \o index_to_label_chars_undivided(idx, length - 1)

RECURSIVE index_to_label_chars(_, _)
\* The chars list of index_to_label: least-significant digit first.
index_to_label_chars(idx, length) ==
    IF length <= 0 THEN <<>>
    ELSE <<Letters[(idx % 26) + 1]>> \o index_to_label_chars(idx \div 26, length - 1)

Reversed(s) == [i \in 1..Len(s) |-> s[Len(s) + 1 - i]]

\* A label written least-significant letter first.
index_to_label_unreversed(idx, length) == index_to_label_chars(idx, length)

\* Lines 17-24.
index_to_label(idx, length) == Reversed(index_to_label_chars(idx, length))

\* Labels as short as each index allows: A..Z, then BA, BB, ...
generate_labels_unpadded(n) == [i \in 1..n |-> index_to_label(i - 1, get_label_length(i))]

\* Lines 26-28.
generate_labels(n) ==
    LET length == get_label_length(n)
    IN  [i \in 1..n |-> index_to_label(i - 1, length)]

\* -------------------------------------------------------------- input CSV
\* A cell of an option column: a decimal numeral as written, or text that
\* float() rejects.
Num(digits, dec) == [k |-> "num", neg |-> FALSE, digits |-> digits, dec |-> dec]
Neg(digits, dec) == [k |-> "num", neg |-> TRUE, digits |-> digits, dec |-> dec]
Junk == [k |-> "junk", neg |-> FALSE, digits |-> 0, dec |-> 0]

Row(text, a, b, c, d, sel) ==
    [Question |-> text, OptionA |-> a, OptionB |-> b, OptionC |-> c, OptionD |-> d,
     CorrectAnswer |-> sel]

\* The rows the input files are made of (a row is a csv.DictReader dict).
RowPlain == Row("q1", Num(100, 1), Num(120, 1), Num(80, 1), Num(110, 1), "A")
RowCenti == Row("q2", Num(314, 2), Num(310, 2), Num(320, 2), Num(300, 2), "A")
RowEqual == Row("q3", Num(5, 0), Num(5, 0), Num(5, 0), Num(5, 0), "B")
RowNegative == Row("q4", Neg(15, 1), Num(0, 0), Num(15, 1), Num(5, 1), " b")
RowZero == Row("q5", Num(0, 0), Num(1, 0), Num(0, 0), Num(1, 0), "A")
RowNegZero == Row("q6", Num(0, 1), Neg(1, 0), Num(1, 0), Num(0, 0), "a")
RowJunk == Row("q7", Num(1, 0), Num(2, 0), Junk, Num(4, 0), "A")
RowNoColumn ==
    [Question |-> "q8", OptionA |-> Num(1, 0), OptionB |-> Num(2, 0),
     OptionC |-> Num(3, 0), CorrectAnswer |-> "C"]
RowBadSelector == Row("q9", Num(1, 0), Num(2, 0), Num(3, 0), Num(4, 0), "E")

\* The input files: the rows of the CSV, in order.
Files ==
    << <<>>, <<RowPlain>>, <<RowCenti>>, <<RowEqual>>, <<RowNegative>>, <<RowZero>>,
       <<RowNegZero>>, <<RowJunk>>, <<RowEqual, RowNoColumn>>,
       <<RowZero, RowBadSelector>>, <<RowEqual, RowZero>> >>

\* row['CorrectAnswer'].strip().upper() on the selectors of the rows above.
StripUpper(sel) ==
    CASE sel = "a" -> "A"
      [] sel = " b" -> "B"
      [] OTHER -> sel

\* A reader that takes option A as the correct answer whatever the selector.
ParseRowFirstOption(row) ==
    IF \E col \in {"OptionA", "OptionB", "OptionC", "OptionD"} : col \notin DOMAIN row
    THEN [ok |-> FALSE, error |-> "KeyError"]
    ELSE IF \E col \in {"OptionA", "OptionB", "OptionC", "OptionD"} : row[col].k # "num"
    THEN [ok |-> FALSE, error |-> "ValueError"]
    ELSE IF "CorrectAnswer" \notin DOMAIN row
    THEN [ok |-> FALSE, error |-> "KeyError"]
    ELSE IF StripUpper(row.CorrectAnswer) \notin {"A", "B", "C", "D"}
    THEN [ok |-> FALSE, error |-> "ValueError"]
    ELSE IF "Question" \notin DOMAIN row
    THEN [ok |-> FALSE, error |-> "KeyError"]
    ELSE [ok |-> TRUE,
          q |-> [question |-> row.Question,
                 options |-> <<ParseFloat(row.OptionA), ParseFloat(row.OptionB),
                               ParseFloat(row.OptionC), ParseFloat(row.OptionD)>>,
                 correct_answer |-> ParseFloat(row.OptionA)]]

\* One iteration of the reader's loop: the Question record of the row, or
\* the exception the iteration raises.
ParseRow(row) ==
    IF \E col \in {"OptionA", "OptionB", "OptionC", "OptionD"} : col \notin DOMAIN row
    THEN [ok |-> FALSE, error |-> "KeyError"]
    ELSE IF \E col \in {"OptionA", "OptionB", "OptionC", "OptionD"} : row[col].k # "num"
    THEN [ok |-> FALSE, error |-> "ValueError"]
    ELSE IF "CorrectAnswer" \notin DOMAIN row
    THEN [ok |-> FALSE, error |-> "KeyError"]
    ELSE LET option_a == ParseFloat(row.OptionA)
             option_b == ParseFloat(row.OptionB)
             option_c == ParseFloat(row.OptionC)
             option_d == ParseFloat(row.OptionD)
             correct_letter == StripUpper(row.CorrectAnswer)
         IN  IF correct_letter \notin {"A", "B", "C", "D"}
             THEN [ok |-> FALSE, error |-> "ValueError"]
             ELSE IF "Question" \notin DOMAIN row
             THEN [ok |-> FALSE, error |-> "KeyError"]
             ELSE [ok |-> TRUE,
                   q |-> [question |-> row.Question,
                          options |-> <<option_a, option_b, option_c, option_d>>,
                          correct_answer |->
                              CASE correct_letter = "A" -> option_a
                                [] correct_letter = "B" -> option_b
                                [] correct_letter = "C" -> option_c
                                [] OTHER -> option_d]]

RECURSIVE ReadRowsSkipping(_, _)
\* A reader that skips a row it cannot parse and goes on.
ReadRowsSkipping(rows, questions_data) ==
    IF rows = <<>> THEN [ok |-> TRUE, questions_data |-> questions_data, error |-> "none"]
    ELSE LET r == ParseRow(Head(rows))
         IN  IF r.ok THEN ReadRowsSkipping(Tail(rows), Append(questions_data, r.q))
             ELSE ReadRowsSkipping(Tail(rows), questions_data)

RECURSIVE ReadRows(_, _)
\* The reader's loop over the rows: the list returned, or the first
\* exception, which leaves the function and with it the rows read so far.
ReadRows(rows, questions_data) ==
    IF rows = <<>> THEN [ok |-> TRUE, questions_data |-> questions_data, error |-> "none"]
    ELSE LET r == ParseRow(Head(rows))
         IN  IF r.ok THEN ReadRows(Tail(rows), Append(questions_data, r.q))
             ELSE [ok |-> FALSE, questions_data |-> <<>>, error |-> r.error]

read_numeric_questions_from_csv(rows) == ReadRows(rows, <<>>)

\* ---------------------------------------------------------------- sampler
\* statistics.mean of the four options, in units (exact: the options have
\* at most FD - 2 digits after the point).
Mean(options) == SeqSum([i \in 1..Len(options) |-> Val(options[i])]) \div Len(options)

\* 16 times the population variance of the options, counted in hundredths
\* (the cells of the rows have at most two digits after the point).
Var16(options) ==
    LET c == Pow(10, FD - 2)
        xs == [i \in 1..Len(options) |-> Val(options[i]) \div c]
        sq == [i \in 1..Len(options) |-> xs[i] * xs[i]]
    IN  4 * SeqSum(sq) - SeqSum(xs) * SeqSum(xs)

\* The standard deviation without the fallback of lines 155-156.
StdevNoFallback(options) == (ISqrt(100 * Var16(options)) * Pow(10, FD - 2)) \div 40

\* statistics.pstdev of the four options with the fallback of line 155, in
\* units: sqrt(Var16) / 4 hundredths, the root taken to one more digit.
Stdev(options) ==
    IF Var16(options) = 0 THEN Pow(10, FD)
    ELSE (ISqrt(100 * Var16(options)) * Pow(10, FD - 2)) \div 40

\* A sampler that lets negative draws through whatever the options are.
allow_negative_always(options) == TRUE

\* Line 162.
allow_negative(options) == \E i \in 1..Len(options) : Val(options[i]) < 0

\* A schedule that adds the first digit one pass early.
expansion_actions_early_decimal ==
    << "none", "bounds", "decimal", "bounds", "bounds", "bounds", "decimal" >>

\* Lines 172-180.
expansion_actions == << "none", "bounds", "bounds", "decimal", "bounds", "bounds", "decimal" >>

max_expansions == Len(expansion_actions) - 1

\* The values random.uniform(lower_bound, upper_bound) is drawn from: the
\* fractions k / DrawDiv of the interval, and the values next to the correct
\* answer that lie in it.
NearOffsets == {-40, 0, 400}

Candidates(lower, upper, correct) ==
    {lower + (k * (upper - lower)) \div DrawDiv : k \in 0..DrawDiv}
        \cup {c \in {Val(correct) + e : e \in NearOffsets} : lower <= c /\ c <= upper}

\* A sampler that collects the raw draw instead of the rounded one.
CandidateValRaw(candidate, current_decimals, tie) == FloatOf(candidate)

\* Lines 224-225: the candidate rounded to current_decimals, as a float.
CandidateVal(candidate, current_decimals, tie) ==
    ParseFloat(Format(FloatOf(candidate), current_decimals, tie))

\* A sampler without the test of line 228.
EffectivelyCorrectNever(candidate_val, correct_answer) == FALSE

\* Line 228: abs(candidate_val - correct_answer) < 1e-14.  One unit is
\* 10^-FD, far above the tolerance: the difference is below it only at 0.
EffectivelyCorrect(candidate_val, correct_answer) ==
    Abs(Val(candidate_val) - Val(correct_answer)) < 1

\* set.add: an element equal to one already in the set is not added.
SetAdd(set, val) == IF \E e \in set : FloatEq(e, val) THEN set ELSE set \cup {val}

\* A sampler that formats at the added digits alone.
CurrentDecimalsNoBase(base_decimals, increments) == increments

\* Line 210.
CurrentDecimals(base_decimals, increments) == base_decimals + increments

\* An assembler that formats the correct answer at its own shortest precision.
CorrectStrShortest(correct_answer, final_decimals, tie) ==
    Format(correct_answer, DecimalsOf(correct_answer, 0), tie)

\* Lines 279 and 290: the correct answer formatted at the final precision.
CorrectStr(correct_answer, final_decimals, tie) == Format(correct_answer, final_decimals, tie)

\* Lines 321-323: the digits after the point of the first answer.
DecCount(final_answers) ==
    IF final_answers # <<>> /\ final_answers[1].dec > 0 THEN final_answers[1].dec ELSE 0

\* A sampler that returns one distractor too few.
FinalListShort(order, how_many) == SubSeq(order, 1, how_many - 1)

\* Line 249: list(distractors_floats)[:needed], of the set in some order.
FinalList(order, how_many) == SubSeq(order, 1, how_many)

\* All orders of the elements of a finite set, as sequences.
Orders(set) ==
    {f \in [1..Cardinality(set) -> set] : \A i, j \in 1..Cardinality(set) : f[i] = f[j] => i = j}

\* ------------------------------------------------------------------ state
VARIABLES
    file,               \* index in Files of the input CSV
    N,                  \* the requested number of answers
    pc,                 \* where the run is
    questions_data,     \* generate_expanded_quiz_numeric: the Questions read
    q_i,                \* index of the question being expanded
    expansions_done,    \* sampler: index of the pass
    lower_bound,        \* sampler: the interval, in units
    upper_bound,
    decimal_increments, \* sampler: precision digits added so far
    distractors_floats, \* sampler: the collection of the pass
    attempts,           \* sampler: draws of the pass
    draws,              \* history: draws of the call, over all passes
    final_decimals,     \* history: final_decimals of each expanded question
    expanded_questions, \* the records appended so far
    error,              \* the exception that ended the run, if any
    write_input,        \* the list handed to the serializer
    csv_out,            \* the file written: header and rows
    zero_answer_data,   \* generate_zero_answer_questions: the records returned
    lab_n,              \* label enumeration: n
    labels,             \* label enumeration: the labels generated so far
    lab_length,         \* label enumeration: get_label_length(n)
    option_labels       \* the evaluation reader: the labels of the sorted option keys

vars == << file, N, pc, questions_data, q_i, expansions_done, lower_bound, upper_bound,
           decimal_increments, distractors_floats, attempts, draws, final_decimals,
           expanded_questions, error, write_input, csv_out, zero_answer_data, lab_n,
           labels, lab_length, option_labels >>

sampler_vars == << expansions_done, lower_bound, upper_bound, decimal_increments,
                   distractors_floats, attempts, draws >>

label_vars == << lab_n, labels, lab_length, option_labels >>

NoError == [kind |-> "none", needed |-> 0, expansions_done |-> 0]

NoCsv == [header |-> <<>>, rows |-> <<>>]

csv_rows == Files[file]

\* The question being expanded and the sampler's arguments for it.
q == questions_data[q_i]
needed == N - 1
base_decimals == get_max_decimals_in_original(q.options)
current_decimals == CurrentDecimals(base_decimals, decimal_increments)

Init ==
    /\ file \in 1..Len(Files)
    /\ N \in 0..MaxN
    /\ Len(Files[file]) * N <= MaxCells
    /\ pc = "start"
    /\ questions_data = <<>>
    /\ q_i = 0
    /\ expansions_done = 0
    /\ lower_bound = 0
    /\ upper_bound = 0
    /\ decimal_increments = 0
    /\ distractors_floats = {}
    /\ attempts = 0
    /\ draws = 0
    /\ final_decimals = <<>>
    /\ expanded_questions = <<>>
    /\ error = NoError
    /\ write_input = <<>>
    /\ csv_out = NoCsv
    /\ zero_answer_data = <<>>
    /\ lab_n = 0
    /\ labels = <<>>
    /\ lab_length = 0
    /\ option_labels = <<>>

\* ---------------------------------------------- generate_expanded_quiz_numeric
\* Line 313: the CSV is read; an exception of the reader ends the run.
Read ==
    /\ pc = "start"
    /\ LET r == read_numeric_questions_from_csv(csv_rows)
       IN  /\ questions_data' = r.questions_data
           /\ pc' = IF r.ok THEN "gen" ELSE "read_failed"
           /\ error' = IF r.ok THEN error ELSE [NoError EXCEPT !.kind = r.error]
    /\ q_i' = 1
    /\ UNCHANGED << file, N, sampler_vars, final_decimals, expanded_questions,
                    write_input, csv_out, zero_answer_data, label_vars >>

\* Lines 316-331 around the record of one question.
Record(question, final_answers, tie) ==
    [question |-> question.question,
     correct_answer |-> Format(question.correct_answer, DecCount(final_answers), tie),
     answers |-> final_answers]

\* Lines 270-280 and 316-331: a question for which no distractor is needed.
ExpandAlone ==
    /\ pc = "gen"
    /\ q_i <= Len(questions_data)
    /\ needed <= 0
    /\ \E tie \in BOOLEAN :
         LET correct_str == CorrectStr(q.correct_answer, base_decimals, tie)
         IN  expanded_questions' =
                 Append(expanded_questions, Record(q, <<correct_str>>, tie))
    /\ final_decimals' = Append(final_decimals, base_decimals)
    /\ q_i' = q_i + 1
    /\ UNCHANGED << file, N, pc, questions_data, sampler_vars, error, write_input,
                    csv_out, zero_answer_data, label_vars >>

\* Lines 153-188: the sampler is called and sets up its first pass.
SamplerStart ==
    /\ pc = "gen"
    /\ q_i <= Len(questions_data)
    /\ needed > 0
    /\ lower_bound' = Mean(q.options) - 3 * Stdev(q.options)
    /\ upper_bound' = Mean(q.options) + 3 * Stdev(q.options)
    /\ expansions_done' = 0
    /\ decimal_increments' = 0
    /\ distractors_floats' = {}
    /\ attempts' = 0
    /\ draws' = 0
    /\ pc' = "draw"
    /\ UNCHANGED << file, N, questions_data, q_i, final_decimals, expanded_questions,
                    error, write_input, csv_out, zero_answer_data, label_vars >>

\* A draw loop without the cap on the attempts of a pass.
WhileConditionNoCap == Cardinality(distractors_floats) < needed

\* A draw loop that does not stop when the collection is full.
WhileConditionNoStop == attempts < needed * AttemptsFactor

\* Line 215: the condition of the draw loop.
WhileCondition ==
    /\ Cardinality(distractors_floats) < needed
    /\ attempts < needed * AttemptsFactor

\* Lines 215-231: one iteration of the draw loop.
Draw ==
    /\ pc = "draw"
    /\ WhileCondition
    /\ \E candidate \in Candidates(lower_bound, upper_bound, q.correct_answer),
          tie \in BOOLEAN :
         LET candidate_val == CandidateVal(candidate, current_decimals, tie)
         IN  distractors_floats' =
                 IF ~allow_negative(q.options) /\ candidate < 0
                 THEN distractors_floats
                 ELSE IF EffectivelyCorrect(candidate_val, q.correct_answer)
                 THEN distractors_floats
                 ELSE SetAdd(distractors_floats, candidate_val)
    /\ attempts' = attempts + 1
    /\ draws' = draws + 1
    /\ UNCHANGED << file, N, pc, questions_data, q_i, expansions_done, lower_bound,
                    upper_bound, decimal_increments, final_decimals,
                    expanded_questions, error, write_input, csv_out, zero_answer_data, label_vars >>

LoopOver ==
    /\ pc = "draw"
    /\ ~WhileCondition

\* A pass that keeps the candidates of the pass before it.
KeptCollection(old) == old

\* Line 209: the collection a pass starts from.
FreshCollection(old) == {}

\* Lines 195-213 and 239-246: the pass fell short; the next one is set up.
NextPass ==
    /\ LoopOver
    /\ Cardinality(distractors_floats) < needed
    /\ expansions_done < max_expansions
    /\ expansions_done' = expansions_done + 1
    /\ LET action == expansion_actions[expansions_done + 2]
           mean == Mean(q.options)
           span_low == lower_bound - mean
           span_high == upper_bound - mean
       IN  /\ lower_bound' = IF action = "bounds" THEN mean + 2 * span_low ELSE lower_bound
           /\ upper_bound' = IF action = "bounds" THEN mean + 2 * span_high ELSE upper_bound
           /\ decimal_increments' =
                  IF action = "decimal" THEN decimal_increments + 1 ELSE decimal_increments
    /\ distractors_floats' = FreshCollection(distractors_floats)
    /\ attempts' = 0
    /\ UNCHANGED << file, N, pc, questions_data, q_i, draws, final_decimals,
                    expanded_questions, error, write_input, csv_out, zero_answer_data, label_vars >>

\* A batch that drops the question whose sampler fell short and goes on.
ExhaustedSkipping ==
    /\ LoopOver
    /\ Cardinality(distractors_floats) < needed
    /\ expansions_done = max_expansions
    /\ q_i' = q_i + 1
    /\ pc' = "gen"
    /\ UNCHANGED << file, N, questions_data, sampler_vars, final_decimals,
                    expanded_questions, error, write_input, csv_out, zero_answer_data,
                    label_vars >>

\* Lines 241-245: the last pass fell short; the ValueError and what its
\* message carries.
Exhausted ==
    /\ LoopOver
    /\ Cardinality(distractors_floats) < needed
    /\ expansions_done = max_expansions
    /\ error' = [kind |-> "ValueError", needed |-> needed,
                 expansions_done |-> expansions_done]
    /\ pc' = "gen_failed"
    /\ UNCHANGED << file, N, questions_data, q_i, sampler_vars, final_decimals,
                    expanded_questions, write_input, csv_out, zero_answer_data, label_vars >>

\* random.shuffle: the list in any order.
Shuffles(list) ==
    {[i \in 1..Len(list) |-> list[p[i]]] : p \in Orders(1..Len(list))}

\* Lines 234-252, 290-294 and 316-331: the pass reached how_many; the
\* distractors are formatted, joined to the correct answer, shuffled, and
\* the record of the question is appended.
Succeed ==
    /\ LoopOver
    /\ Cardinality(distractors_floats) >= needed
    /\ \E order \in Orders(distractors_floats), tie \in BOOLEAN :
         LET final_list_floats == FinalList(order, needed)
             distractors_str_list ==
                 [i \in 1..Len(final_list_floats) |->
                     Format(final_list_floats[i], current_decimals, tie)]
             correct_str == CorrectStr(q.correct_answer, current_decimals, tie)
         IN  \E unshuffled \in {<<correct_str>> \o distractors_str_list} :
               \E final_answers \in Shuffles(unshuffled) :
                 \E record \in {Record(q, final_answers, tie)} :
                     expanded_questions' = Append(expanded_questions, record)
    /\ final_decimals' = Append(final_decimals, current_decimals)
    /\ q_i' = q_i + 1
    /\ pc' = "gen"
    /\ UNCHANGED << file, N, questions_data, sampler_vars, error, write_input,
                    csv_out, zero_answer_data, label_vars >>

\* Line 333: every question is expanded; the list is returned.
Return ==
    /\ pc = "gen"
    /\ q_i > Len(questions_data)
    /\ pc' = "generated"
    /\ UNCHANGED << file, N, questions_data, q_i, sampler_vars, final_decimals,
                    expanded_questions, error, write_input, csv_out, zero_answer_data, label_vars >>

\* ------------------------------------- write_expanded_numeric_questions_to_csv
RECURSIVE MaxLen(_)
\* Line 345: max((len(q['answers']) for q in expanded_questions), default=0).
MaxLen(expanded) ==
    IF expanded = <<>> THEN 0
    ELSE LET rest == MaxLen(Tail(expanded))
             here == Len(Head(expanded).answers)
         IN  IF here > rest THEN here ELSE rest

\* A column name is the sequence of its parts: a label is the sequence of
\* its letters.
QuestionColumn == << "question" >>
CorrectColumn == << "correct_answer" >>
AnswerColumn(label) == label

\* Lines 348-351.
Fieldnames(expanded) ==
    LET column_labels == generate_labels(MaxLen(expanded))
    IN  <<QuestionColumn>>
            \o [i \in 1..Len(column_labels) |-> AnswerColumn(column_labels[i])]
            \o <<CorrectColumn>>

\* A serializer that names the first column whatever the position is.
IndexOfFirstColumn(answers, correct_str) == 1

\* answers.index(correct_str): the first position holding it (1-based here).
IndexOf(answers, correct_str) ==
    CHOOSE i \in 1..Len(answers) :
        /\ answers[i] = correct_str
        /\ \A j \in 1..(i - 1) : answers[j] # correct_str

\* Lines 358-377: the row written for one item; a column the item has no
\* answer for is written empty, and so is the label of a correct answer
\* that is not among the answers.
RowData(item, column_labels) ==
    [question |-> item.question,
     cells |-> [i \in 1..Len(column_labels) |->
                   IF i <= Len(item.answers) THEN <<item.answers[i]>> ELSE <<>>],
     correct_answer |->
         IF \E i \in 1..Len(item.answers) : item.answers[i] = item.correct_answer
         THEN column_labels[IndexOf(item.answers, item.correct_answer)]
         ELSE <<>>]

write_expanded_numeric_questions_to_csv(expanded) ==
    [header |-> Fieldnames(expanded),
     rows |-> [i \in 1..Len(expanded) |->
                  RowData(expanded[i], generate_labels(MaxLen(expanded)))]]

\* Lines 409-410: the list generated is written.
Write ==
    /\ pc = "generated"
    /\ write_input' = expanded_questions
    /\ csv_out' = write_expanded_numeric_questions_to_csv(expanded_questions)
    /\ pc' = "written"
    /\ UNCHANGED << file, N, questions_data, q_i, sampler_vars, final_decimals,
                    expanded_questions, error, zero_answer_data, label_vars >>

\* A numeral as text, for the lists a caller builds itself.
Str(digits, dec) == [neg |-> FALSE, digits |-> digits, dec |-> dec]

\* The serializer is an entry point of its own: lists a caller hands to it.
SuppliedLists ==
    << << [question |-> "s1", correct_answer |-> Str(10, 0),
           answers |-> <<Str(12, 0), Str(10, 0), Str(8, 0)>>] >>,
       << [question |-> "s2", correct_answer |-> Str(100, 1),
           answers |-> <<Str(12, 0), Str(10, 0)>>] >>,
       << [question |-> "s3", correct_answer |-> Str(7, 0),
           answers |-> <<Str(7, 0), Str(9, 0), Str(7, 0)>>],
          [question |-> "s4", correct_answer |-> Str(3, 0),
           answers |-> <<Str(4, 0), Str(5, 0)>>] >> >>

WriteSupplied ==
    /\ pc = "start"
    /\ \E k \in 1..Len(SuppliedLists) :
         /\ write_input' = SuppliedLists[k]
         /\ csv_out' = write_expanded_numeric_questions_to_csv(SuppliedLists[k])
    /\ pc' = "supplied_written"
    /\ UNCHANGED << file, N, questions_data, q_i, sampler_vars, final_decimals,
                    expanded_questions, error, zero_answer_data, label_vars >>

\* ------------------------------------------------ the N = 0 ("no options") path
\* Line 94: the question text with the rounding instruction appended; a text
\* is the sequence of its parts.
UpdatedQuestion(text, max_dp) ==
    << text, " Round your answer to ", max_dp, " decimal places." >>

\* A zero-answer record whose correct answer is formatted at its own
\* shortest precision.
ZeroCorrectStrShortest(correct_answer, max_dp, tie) ==
    Format(correct_answer, DecimalsOf(correct_answer, 0), tie)

\* Line 97.
ZeroCorrectStr(correct_answer, max_dp, tie) == Format(correct_answer, max_dp, tie)

\* Lines 86-102: the record of one question.
ZeroRecord(question, tie) ==
    LET max_dp == get_max_decimals_in_original(question.options)
    IN  [question |-> UpdatedQuestion(question.question, max_dp),
         correct_answer |-> ZeroCorrectStr(question.correct_answer, max_dp, tie)]

\* Lines 83-104.
GenerateZero ==
    /\ pc = "start"
    /\ N = 0
    /\ LET r == read_numeric_questions_from_csv(csv_rows)
       IN  /\ questions_data' = r.questions_data
           /\ pc' = IF r.ok THEN "zero_generated" ELSE "read_failed"
           /\ error' = IF r.ok THEN error ELSE [NoError EXCEPT !.kind = r.error]
           /\ \E tie \in BOOLEAN :
                  zero_answer_data' =
                      [i \in 1..Len(r.questions_data) |-> ZeroRecord(r.questions_data[i], tie)]
    /\ UNCHANGED << file, N, q_i, sampler_vars, final_decimals, expanded_questions,
                    write_input, csv_out, label_vars >>

\* Lines 380-396: the two-column file.
write_zero_answer_questions_to_csv(zero_data) ==
    [header |-> << QuestionColumn, CorrectColumn >>,
     rows |-> [i \in 1..Len(zero_data) |->
                  [question |-> zero_data[i].question,
                   correct_answer |-> zero_data[i].correct_answer]]]

\* Lines 405-406.
WriteZero ==
    /\ pc = "zero_generated"
    /\ csv_out' = write_zero_answer_questions_to_csv(zero_answer_data)
    /\ pc' = "zero_written"
    /\ UNCHANGED << file, N, questions_data, q_i, sampler_vars, final_decimals,
                    expanded_questions, error, write_input, zero_answer_data,
                    label_vars >>

Next ==
    \/ Read
    \/ ExpandAlone
    \/ SamplerStart
    \/ Draw
    \/ NextPass
    \/ Exhausted
    \/ Succeed
    \/ Return
    \/ Write
    \/ WriteSupplied
    \/ GenerateZero
    \/ WriteZero

Spec == Init /\ [][Next]_vars

\* The runs on which termination is checked: the files of one valid row
\* with equal options and with a zero answer and no negative option.
TermFiles == {4, 6}
MaxTermN == 2

TermInit == Init /\ file \in TermFiles /\ N <= MaxTermN

\* The program is sequential: a statement that can run does run.
TermSpec == TermInit /\ [][Next]_vars /\ WF_vars(Next)

\* ------------------------------------------------------- the label functions
\* The n at which the label length changes, and their neighbours.
LabelEdges == {26, 27, 676, 677, 17576, 17577}

\* generate_labels on its own, for every n up to MaxLabelN and the edges.
LabelInit ==
    /\ lab_n \in (0..MaxLabelN) \cup LabelEdges
    /\ labels = <<>>
    /\ lab_length = 0
    /\ option_labels = <<>>
    /\ zero_answer_data = <<>>
    /\ file = 1
    /\ N = 0
    /\ pc = "labels"
    /\ questions_data = <<>>
    /\ q_i = 0
    /\ expansions_done = 0
    /\ lower_bound = 0
    /\ upper_bound = 0
    /\ decimal_increments = 0
    /\ distractors_floats = {}
    /\ attempts = 0
    /\ draws = 0
    /\ final_decimals = <<>>
    /\ expanded_questions = <<>>
    /\ error = NoError
    /\ write_input = <<>>
    /\ csv_out = NoCsv

GenerateLabels ==
    /\ pc = "labels"
    /\ lab_n <= 26 * 26 + 1
    /\ labels' = generate_labels(lab_n)
    /\ lab_length' = get_label_length(lab_n)
    /\ pc' = "labelled"
    /\ UNCHANGED << file, N, questions_data, q_i, sampler_vars, final_decimals,
                    expanded_questions, error, write_input, csv_out, zero_answer_data,
                    lab_n, option_labels >>

\* get_label_length on its own, for the n whose labels are not listed.
MeasureLength ==
    /\ pc = "labels"
    /\ lab_length' = get_label_length(lab_n)
    /\ pc' = "measured"
    /\ UNCHANGED << file, N, questions_data, q_i, sampler_vars, final_decimals,
                    expanded_questions, error, write_input, csv_out, zero_answer_data,
                    lab_n, labels, option_labels >>

\* ------------------------------------------------- the evaluation readers
\* A key of a record is the sequence of its characters.
Lower == << "a", "b", "c", "d", "e", "f", "g", "h", "i", "j", "k", "l", "m",
            "n", "o", "p", "q", "r", "s", "t", "u", "v", "w", "x", "y", "z" >>

\* ord(ch) for the letters.
CharCode(ch) ==
    IF \E k \in 1..26 : Letters[k] = ch
    THEN 64 + (CHOOSE k \in 1..26 : Letters[k] = ch)
    ELSE 96 + (CHOOSE k \in 1..26 : Lower[k] = ch)

RECURSIVE StrLess(_, _)
\* Python's < on strings: by the first character that differs, a proper
\* prefix before the longer string.
StrLess(a, b) ==
    IF a = <<>> THEN b # <<>>
    ELSE IF b = <<>> THEN FALSE
    ELSE IF Head(a) # Head(b) THEN CharCode(Head(a)) < CharCode(Head(b))
    ELSE StrLess(Tail(a), Tail(b))

\* sorted(keys) of distinct strings.
sorted(keys) ==
    LET ranked == {<< Cardinality({other \in keys : StrLess(other, key)}), key >> :
                      key \in keys}
    IN  [r \in 1..Cardinality(keys) |-> (CHOOSE pair \in ranked : pair[1] = r - 1)[2]]

OptionPrefix == << "O", "p", "t", "i", "o", "n" >>

\* key.startswith(prefix).
StartsWith(key, prefix) ==
    Len(key) >= Len(prefix) /\ SubSeq(key, 1, Len(prefix)) = prefix

\* The keys of a record of a file in the layout the readers document:
\* Question, one Option<label> column for each label, CorrectAnswer.
RecordKeys(column_labels) ==
    {<< "Q", "u", "e", "s", "t", "i", "o", "n" >>,
     << "C", "o", "r", "r", "e", "c", "t", "A", "n", "s", "w", "e", "r" >>}
        \cup {OptionPrefix \o column_labels[i] : i \in 1..Len(column_labels)}

\* record_to_sample: the option keys of the record, sorted, and the labels
\* taken from them.
RecordToSampleLabels(keys) ==
    LET option_keys == sorted({key \in keys : StartsWith(key, OptionPrefix)})
    IN  [i \in 1..Len(option_keys) |->
            SubSeq(option_keys[i], Len(OptionPrefix) + 1, Len(option_keys[i]))]

\* A reader takes a record whose option columns carry the labels generated.
RecordToSample ==
    /\ pc = "labelled"
    /\ option_labels' = RecordToSampleLabels(RecordKeys(labels))
    /\ pc' = "sampled"
    /\ UNCHANGED << file, N, questions_data, q_i, sampler_vars, final_decimals,
                    expanded_questions, error, write_input, csv_out, zero_answer_data,
                    lab_n, labels, lab_length >>

LabelNext ==
    \/ GenerateLabels
    \/ MeasureLength
    \/ RecordToSample

LabelSpec == LabelInit /\ [][LabelNext]_vars

\* ------------------------------------- the sampler on rows of equal options
\* Files of one row whose four options are equal.
EqualRow(text, cell) == Row(text, cell, cell, cell, cell, "A")

PoolFiles ==
    << <<EqualRow("e1", Num(0, 0))>>, <<EqualRow("e2", Num(1, 0))>>,
       <<EqualRow("e3", Num(5, 0))>>, <<EqualRow("e4", Num(50, 0))>>,
       <<EqualRow("e5", Num(5, 1))>>, <<EqualRow("e6", Num(25, 2))>>,
       <<EqualRow("e7", Neg(2, 0))>>, <<EqualRow("e8", Num(0, 1))>> >>

\* ceil(a / b) for b > 0.
CeilDiv(a, b) == -((-a) \div b)

\* The values a pass can collect: the numerals of decimals digits that lie
\* in [lower, upper], are not below zero when no option is negative (line
\* 219) and are not the correct answer (line 228).
Pool(lower, upper, decimals, options, correct_answer) ==
    LET step == Pow(10, FD - decimals)
        floor == IF allow_negative(options) \/ lower >= 0 THEN lower ELSE 0
    IN  {val \in {FloatOf(g * step) : g \in CeilDiv(floor, step)..(upper \div step)} :
            ~EffectivelyCorrect(val, correct_answer)}

\* The n smallest values of a pool.
Smallest(pool, n) == {val \in pool : Cardinality({u \in pool : Val(u) < Val(val)}) < n}

\* Lines 215-231 as one step, under sampling that meets every value of the
\* pool: the pass ends full when the pool has how_many values, and with the
\* whole pool, at the cap of attempts, when it has fewer.
FairPass ==
    /\ pc = "draw"
    /\ attempts = 0
    /\ \E pool \in {Pool(lower_bound, upper_bound, current_decimals, q.options,
                         q.correct_answer)} :
         IF Cardinality(pool) >= needed
         THEN /\ distractors_floats' = Smallest(pool, needed)
              /\ attempts' = needed
              /\ draws' = draws + needed
         ELSE /\ distractors_floats' = pool
              /\ attempts' = needed * AttemptsFactor
              /\ draws' = draws + needed * AttemptsFactor
    /\ UNCHANGED << file, N, pc, questions_data, q_i, expansions_done, lower_bound,
                    upper_bound, decimal_increments, final_decimals,
                    expanded_questions, error, write_input, csv_out, zero_answer_data,
                    label_vars >>

\* The state after the file of one equal-options row is read, for each N
\* that asks for a distractor.
PoolInit ==
    /\ file \in 1..Len(PoolFiles)
    /\ N \in 2..MaxPoolN
    /\ pc = "gen"
    /\ questions_data = read_numeric_questions_from_csv(PoolFiles[file]).questions_data
    /\ q_i = 1
    /\ expansions_done = 0
    /\ lower_bound = 0
    /\ upper_bound = 0
    /\ decimal_increments = 0
    /\ distractors_floats = {}
    /\ attempts = 0
    /\ draws = 0
    /\ final_decimals = <<>>
    /\ expanded_questions = <<>>
    /\ error = NoError
    /\ write_input = <<>>
    /\ csv_out = NoCsv
    /\ zero_answer_data = <<>>
    /\ lab_n = 0
    /\ labels = <<>>
    /\ lab_length = 0
    /\ option_labels = <<>>

PoolNext ==
    \/ SamplerStart
    \/ FairPass
    \/ NextPass

PoolSpec == PoolInit /\ [][PoolNext]_vars

\* ------------------------------------------------------------------ claims
Count(list, x) == Cardinality({i \in 1..Len(list) : list[i] = x})

Records == 1..Len(expanded_questions)

\* The run drew more than one pass's worth: the record of the question just
\* expanded comes from a pass after the first.
LaterPass == draws > needed * AttemptsFactor

\* C1 as stated: every record returned by generate_expanded_quiz_numeric has
\* exactly N answers, for every requested N, N = 0 and N = 1 included.
C1_CountIsN ==
    \A i \in Records : Len(expanded_questions[i].answers) = N

\* C1 as amended: every record has exactly N answers when N >= 1, and the
\* correct answer alone (one answer) when N = 0.
C1_CountInvariant ==
    \A i \in Records :
        Len(expanded_questions[i].answers) = IF N >= 1 THEN N ELSE 1

C1_Witness ==
    /\ pc = "generated"
    /\ N = 3
    /\ Len(expanded_questions) = 1
    /\ Len(expanded_questions[1].answers) = 3

\* C2: in every record returned by generate_expanded_quiz_numeric the
\* correct_answer string occurs in answers exactly once, and no distractor
\* the sampler holds on any pass formats, at that pass's precision, to the
\* string of the correct answer.
C2_CorrectOnce ==
    /\ \A i \in Records :
           Count(expanded_questions[i].answers, expanded_questions[i].correct_answer) = 1
    /\ pc = "draw" =>
           \A val \in distractors_floats, tie \in BOOLEAN :
               Format(val, current_decimals, tie)
                   # Format(q.correct_answer, current_decimals, tie)

C2_Witness ==
    /\ pc = "generated"
    /\ N = 3
    /\ LaterPass
    /\ Len(expanded_questions) = 1
    /\ Count(expanded_questions[1].answers, expanded_questions[1].correct_answer) = 1

\* C3: in every record returned by generate_expanded_quiz_numeric the
\* answers (the correct one and the distractors) are pairwise distinct
\* strings, whichever pass produced them.
C3_Unique ==
    \A i \in Records :
        \A j, k \in 1..Len(expanded_questions[i].answers) :
            expanded_questions[i].answers[j] = expanded_questions[i].answers[k] => j = k

C3_Witness ==
    /\ pc = "gen"
    /\ N = 3
    /\ expansions_done = 3
    /\ Len(expanded_questions) = 1
    /\ Cardinality({expanded_questions[1].answers[j] : j \in 1..3}) = 3

\* The index a label stands for: its letters read as a base-26 number,
\* most-significant digit first.
LetterDigit(ch) == (CHOOSE k \in 1..26 : Letters[k] = ch) - 1

RECURSIVE DecodeFrom(_, _)
DecodeFrom(label, acc) ==
    IF label = <<>> THEN acc
    ELSE DecodeFrom(Tail(label), 26 * acc + LetterDigit(Head(label)))

Decode(label) == DecodeFrom(label, 0)

\* C4: for every n in 1..100 generate_labels(n) returns n pairwise distinct
\* labels, and the label at list position i decodes (base 26 over A-Z,
\* most-significant digit first) to i, so every index of 0..n-1 is hit once.
C4_LabelBijection ==
    (pc = "labelled" /\ lab_n >= 1) =>
        /\ Len(labels) = lab_n
        /\ \A i \in 1..Len(labels) : Decode(labels[i]) = i - 1
        /\ \A i, j \in 1..Len(labels) : labels[i] = labels[j] => i = j
        /\ {Decode(labels[i]) : i \in 1..Len(labels)} = 0..(lab_n - 1)

C4_Witness ==
    /\ pc = "labelled"
    /\ lab_n = 100
    /\ labels[100] = << "D", "V" >>
    /\ labels[27] = << "B", "A" >>

\* C5: in every record returned by generate_expanded_quiz_numeric every
\* answer string, the correct one included, has the same number of digits
\* after the point: the final precision of that question.
C5_OnePrecision ==
    /\ Len(final_decimals) = Len(expanded_questions)
    /\ \A i \in Records :
           \A j \in 1..Len(expanded_questions[i].answers) :
               expanded_questions[i].answers[j].dec = final_decimals[i]

C5_Witness ==
    /\ pc = "generated"
    /\ N = 3
    /\ Len(expanded_questions) = 1
    /\ final_decimals[1] = 3
    /\ \A j \in 1..3 : expanded_questions[1].answers[j].dec = 3

\* C6: on every pass of the sampler the formatting precision is at least
\* base_decimals, it never decreases from one pass to the next, and the
\* precision of every expanded question is at least the base_decimals of
\* its options.
C6_PrecisionFloor ==
    /\ [](pc = "draw" => current_decimals >= base_decimals)
    /\ [](\A i \in 1..Len(final_decimals) :
              final_decimals[i] >= get_max_decimals_in_original(questions_data[i].options))
    /\ [][(pc = "draw" /\ pc' = "draw") => current_decimals' >= current_decimals]_vars

C6_Witness ==
    /\ pc = "draw"
    /\ base_decimals = 2
    /\ decimal_increments = 2
    /\ current_decimals = 4

\* C7: when the seven passes are exhausted the sampler fails with an error
\* that reports the requested count, the number of candidates obtained, the
\* attempt count and the mean and standard deviation of the options.
C7_ErrorReports ==
    pc = "gen_failed" =>
        /\ error.kind # "none"
        /\ "needed" \in DOMAIN error
        /\ error.needed = needed
        /\ {"obtained", "attempts", "mean", "stdev"} \subseteq DOMAIN error

C7_Witness ==
    /\ pc = "gen_failed"
    /\ expansions_done = 6
    /\ Cardinality(distractors_floats) < needed
    /\ error.needed = needed

\* C8: the serializer emits no row whose correct-answer cell names no
\* answer: a correct answer missing from the row's answers is an error.
C8_NoUnlabelledRow ==
    pc \in {"written", "supplied_written"} =>
        \A i \in 1..Len(csv_out.rows) : csv_out.rows[i].correct_answer # <<>>

\* A row the reader must refuse: a required column is absent, an option
\* cell is not numeric, or the selector names none of the options A-D.
RowInvalid(row) ==
    \/ ~({"Question", "OptionA", "OptionB", "OptionC", "OptionD", "CorrectAnswer"}
             \subseteq DOMAIN row)
    \/ \E col \in {"OptionA", "OptionB", "OptionC", "OptionD"} \cap DOMAIN row :
           row[col].k # "num"
    \/ /\ "CorrectAnswer" \in DOMAIN row
       /\ StripUpper(row.CorrectAnswer) \notin {"A", "B", "C", "D"}

\* C9: when any row of the file is invalid, the reader fails with the
\* exception of that row and returns no Question at all, those of the valid
\* rows before it included.
C9_ReadAborts ==
    ((\E i \in 1..Len(csv_rows) : RowInvalid(csv_rows[i]))
         /\ pc \notin {"start", "supplied_written", "labels", "labelled"}) =>
        /\ pc = "read_failed"
        /\ error.kind \in {"KeyError", "ValueError"}
        /\ questions_data = <<>>
        /\ expanded_questions = <<>>

C9_Witness ==
    /\ pc = "read_failed"
    /\ Len(csv_rows) = 2
    /\ ~RowInvalid(csv_rows[1])
    /\ RowInvalid(csv_rows[2])
    /\ questions_data = <<>>

\* The header the evaluation reader looks up: "Question", then "Option"
\* followed by the label of each answer index, then "CorrectAnswer".
ExpectedHeader(n) ==
    << << "Question" >> >>
        \o [i \in 1..n |-> << "Option" >> \o generate_labels(n)[i]]
        \o << << "CorrectAnswer" >> >>

\* C10: for N >= 2 the header written is Question, OptionA, OptionB, ... in
\* index order, CorrectAnswer.
C10_Header ==
    (pc = "written" /\ N >= 2 /\ write_input # <<>>) =>
        csv_out.header = ExpectedHeader(N)

C10_Witness ==
    /\ pc = "written"
    /\ N = 3
    /\ Len(csv_out.header) = 5
    /\ Len(csv_out.rows) = 1

\* C11: a sampler failure for one question ends generate_expanded_quiz_numeric
\* with that error: no list is returned (neither the records of the earlier
\* questions nor a list without the failing question) and no CSV is written.
C11_BatchAborts ==
    /\ pc = "gen_failed" =>
           /\ error.kind = "ValueError"
           /\ csv_out = NoCsv
           /\ write_input = <<>>
           /\ ~ENABLED Next
    /\ pc \in {"generated", "written"} =>
           /\ error.kind = "none"
           /\ Len(expanded_questions) = Len(questions_data)
           /\ \A i \in Records : expanded_questions[i].question = questions_data[i].question

C11_Witness ==
    /\ pc = "gen_failed"
    /\ Len(questions_data) = 2
    /\ q_i = 2
    /\ Len(expanded_questions) = 1
    /\ csv_out = NoCsv

\* C12: when all four options are >= 0 every distractor the sampler holds or
\* returns is >= 0 (and carries no minus sign), on every pass, also when the
\* interval reaches below zero; negative distractors occur only for a
\* question with a negative option.
C12_NoNegatives ==
    /\ (pc = "draw" /\ ~(\E i \in 1..4 : Val(q.options[i]) < 0)) =>
           \A val \in distractors_floats : Val(val) >= 0 /\ val.s = 1
    /\ \A i \in Records :
           (\A k \in 1..4 : Val(questions_data[i].options[k]) >= 0) =>
               \A j \in 1..Len(expanded_questions[i].answers) :
                   ~expanded_questions[i].answers[j].neg

C12_Witness ==
    /\ pc = "draw"
    /\ \A i \in 1..4 : Val(q.options[i]) >= 0
    /\ expansions_done >= 1
    /\ lower_bound < 0
    /\ distractors_floats # {}

\* A negative distractor is returned for a question with a negative option.
C12_NegativePermitted ==
    /\ pc = "generated"
    /\ \E i \in Records :
           /\ \E k \in 1..4 : Val(questions_data[i].options[k]) < 0
           /\ \E j \in 1..Len(expanded_questions[i].answers) :
                  expanded_questions[i].answers[j].neg

\* The number of decimal places the options show: the least d at which
\* every option is a whole number of 10^-d.
MaxPlaces(options) ==
    CHOOSE d \in 0..FD :
        /\ \A i \in 1..Len(options) : options[i].m % Pow(10, FD - d) = 0
        /\ \A e \in 0..(d - 1) : \E i \in 1..Len(options) : options[i].m % Pow(10, FD - e) # 0

\* C13: in the N = 0 mode every record has two columns, the question and
\* the correct answer; the question is the source text followed by the
\* instruction to round to d decimal places, and the correct answer is the
\* correct option written with exactly d digits after the point, d being
\* the number of decimal places of the four options; the file written has
\* the same two columns and neither labels nor distractors.
C13_ZeroMode ==
    /\ pc \in {"zero_generated", "zero_written"} =>
           /\ Len(zero_answer_data) = Len(questions_data)
           /\ \A i \in 1..Len(zero_answer_data) :
                  LET d == MaxPlaces(questions_data[i].options)
                  IN  /\ DOMAIN zero_answer_data[i] = {"question", "correct_answer"}
                      /\ zero_answer_data[i].question =
                             << questions_data[i].question, " Round your answer to ", d,
                                " decimal places." >>
                      /\ zero_answer_data[i].correct_answer.dec = d
                      /\ FloatEq(ParseFloat(zero_answer_data[i].correct_answer),
                                 questions_data[i].correct_answer)
    /\ pc = "zero_written" =>
           /\ Len(csv_out.header) = 2
           /\ Len(csv_out.rows) = Len(zero_answer_data)
           /\ \A i \in 1..Len(csv_out.rows) :
                  /\ DOMAIN csv_out.rows[i] = {"question", "correct_answer"}
                  /\ csv_out.rows[i] = zero_answer_data[i]

C13_Witness ==
    /\ pc = "zero_written"
    /\ Len(csv_out.rows) = 1
    /\ csv_out.rows[1].question[3] = 2
    /\ csv_out.rows[1].correct_answer = [neg |-> FALSE, digits |-> 314, dec |-> 2]

\* The lengths the label enumeration has computed.
Measured == pc \in {"measured", "labelled"} /\ lab_n >= 1

\* C14 as stated: for every n >= 1 get_label_length(n) is the least L with
\* 26^L >= n, no smaller L (0 included) satisfying it, and every label of
\* generate_labels(n) has that length.
C14_MinimalLength ==
    Measured =>
        /\ Pow(26, lab_length) >= lab_n
        /\ \A l \in 0..(lab_length - 1) : Pow(26, l) < lab_n
        /\ pc = "labelled" => \A i \in 1..Len(labels) : Len(labels[i]) = lab_length

\* C14 as amended: for every n >= 1 get_label_length(n) is the least L >= 1
\* with 26^L >= n, and every label of generate_labels(n) has that length.
C14_MinimalPositiveLength ==
    Measured =>
        /\ lab_length >= 1
        /\ Pow(26, lab_length) >= lab_n
        /\ \A l \in 1..(lab_length - 1) : Pow(26, l) < lab_n
        /\ pc = "labelled" =>
               /\ Len(labels) = lab_n
               /\ \A i \in 1..Len(labels) : Len(labels[i]) = lab_length

C14_Witness ==
    /\ pc = "labelled"
    /\ lab_n = 26 * 26 + 1
    /\ lab_length = 3
    /\ labels[lab_n] = << "B", "A", "A" >>

\* The passes up to k that double the bounds, and those that add a digit.
DoublingsUpTo(k) == Cardinality({i \in {1, 2, 4, 5} : i <= k})
DigitsUpTo(k) == Cardinality({i \in {3, 6} : i <= k})

\* The state of the schedule while the sampler of a question runs.
ScheduleState ==
    pc = "draw" =>
        LET k == expansions_done
            mean == Mean(q.options)
            s == Stdev(q.options)
            w == 3 * s * Pow(2, DoublingsUpTo(k))
        IN  /\ k \in 0..6
            /\ s > 0
            /\ lower_bound = mean - w
            /\ upper_bound = mean + w
            /\ upper_bound > lower_bound
            /\ w <= 16 * (3 * s)
            /\ decimal_increments = DigitsUpTo(k)
            /\ current_decimals = base_decimals + DigitsUpTo(k)
            /\ current_decimals <= base_decimals + 2

\* A step of the sampler keeps the pass or moves to the next one, and
\* neither the interval nor the precision shrinks.
ScheduleStep ==
    (pc = "draw" /\ pc' = "draw") =>
        /\ expansions_done' \in {expansions_done, expansions_done + 1}
        /\ lower_bound' <= lower_bound
        /\ upper_bound' >= upper_bound
        /\ decimal_increments' >= decimal_increments

\* C15: the sampler runs at most the seven passes 0..6, in order; at pass k
\* the interval is [mean - w, mean + w] with w = 3 * s * 2^b(k), s the
\* standard deviation of the options (1.0 when it is 0) and b(k) the number
\* of indices of {1, 2, 4, 5} up to k, and the precision is base_decimals
\* plus the number of indices of {3, 6} up to k; the interval has positive
\* width and never shrinks, w is at most 16 times its first value and the
\* precision at most base_decimals + 2.
C15_Schedule == []ScheduleState /\ [][ScheduleStep]_vars

C15_Witness ==
    /\ pc = "draw"
    /\ expansions_done = 6
    /\ decimal_increments = 2
    /\ Stdev(q.options) # Pow(10, FD)
    /\ upper_bound - lower_bound = 96 * Stdev(q.options)

\* The draws made so far by the call that is running, against the caps.
DrawCaps ==
    pc = "draw" =>
        /\ attempts <= needed * AttemptsFactor
        /\ expansions_done <= 6
        /\ draws <= expansions_done * needed * AttemptsFactor + attempts
        /\ draws <= 7 * needed * AttemptsFactor

\* Every step of a running call is a draw of the pass or the move to the
\* next pass, or ends the call.
SamplerProgress ==
    (pc = "draw" /\ pc' = "draw") =>
        \/ expansions_done' = expansions_done /\ attempts' = attempts + 1
                                              /\ draws' = draws + 1
        \/ expansions_done' = expansions_done + 1 /\ attempts' = 0 /\ draws' = draws

\* C16: a call of generate_uniform_distractors makes at most how_many *
\* max_attempts_factor draws in a pass and runs at most seven passes, so at
\* most 7 * how_many * max_attempts_factor draws in all, and then returns
\* or raises; it never loops for ever, even when fewer than how_many values
\* are admissible.
C16_Terminates ==
    /\ []DrawCaps
    /\ [][SamplerProgress]_vars
    /\ (pc = "draw") ~> (pc \in {"gen", "gen_failed"})

C16_Witness ==
    /\ pc = "gen_failed"
    /\ needed = 1
    /\ attempts = needed * AttemptsFactor
    /\ draws = 7 * needed * AttemptsFactor

\* The collection of the running pass has reached how_many.
Full == pc = "draw" /\ Cardinality(distractors_floats) >= needed

\* The step that returns from the sampler: the record appended holds the
\* correct answer and the how_many collected values, each written at the
\* precision of the pass, and that precision is the one handed back.
ReturnsCollection ==
    LET rec == expanded_questions'[Len(expanded_questions')]
        strs == {rec.answers[j] : j \in 1..Len(rec.answers)} \ {rec.correct_answer}
    IN  /\ pc' = "gen"
        /\ UNCHANGED sampler_vars
        /\ Len(expanded_questions') = Len(expanded_questions) + 1
        /\ Len(rec.answers) = needed + 1
        /\ Cardinality(strs) = needed
        /\ \A str \in strs : str.dec = current_decimals
        /\ {ParseFloat(str) : str \in strs} = distractors_floats
        /\ final_decimals' = Append(final_decimals, current_decimals)

\* From a full collection the only step is the return, and the sampler
\* returns from no other state.
StopsWhenFull ==
    /\ Full => ReturnsCollection
    /\ (pc = "draw" /\ pc' = "gen") => Full

\* C17: the sampler stops at the first pass whose collection reaches
\* how_many: no further draw and no later pass follows, it returns exactly
\* how_many candidates formatted at that pass's precision together with
\* that precision, and never a shorter list.
C17_StopsAtFirstFull ==
    /\ [](pc = "draw" => Cardinality(distractors_floats) <= needed)
    /\ [][StopsWhenFull]_vars

C17_Witness ==
    /\ pc = "gen"
    /\ Len(expanded_questions) = 1
    /\ needed = 2
    /\ expansions_done = 3
    /\ Cardinality(distractors_floats) = 2
    /\ final_decimals[1] = get_max_decimals_in_original(questions_data[1].options) + 1
    /\ \A j \in 1..3 : expanded_questions[1].answers[j].dec = final_decimals[1]

\* What the collection of the running pass holds comes from the draws of
\* that pass: no more values than draws made in it, each a multiple of the
\* unit of the pass's precision, each within half a unit of the pass's
\* interval.
FromThisPass ==
    pc = "draw" =>
        LET step == Pow(10, FD - current_decimals)
        IN  /\ Cardinality(distractors_floats) <= attempts
            /\ \A val \in distractors_floats :
                   /\ val.m % step = 0
                   /\ 2 * Val(val) >= 2 * lower_bound - step
                   /\ 2 * Val(val) <= 2 * upper_bound + step

\* The move to the next pass empties the collection.
PassStartsEmpty ==
    (pc = "draw" /\ expansions_done' # expansions_done) =>
        /\ distractors_floats' = {}
        /\ attempts' = 0

\* C18: each pass starts from an empty collection, so every distractor
\* returned was drawn in the successful pass, from that pass's interval and
\* rounded at that pass's precision; none survives from an earlier pass.
C18_FreshEachPass == []FromThisPass /\ [][PassStartsEmpty]_vars

C18_Witness ==
    /\ pc = "draw"
    /\ needed = 2
    /\ expansions_done = 4
    /\ draws = 4 * needed * AttemptsFactor + attempts
    /\ Cardinality(distractors_floats) = 2
    /\ \E val \in distractors_floats : Val(val) > Mean(q.options) + 12 * Stdev(q.options)

\* C19: in every row written by write_expanded_numeric_questions_to_csv
\* whose correct-answer string occurs in its answers, the correct-answer
\* cell holds the label of a position whose answer cell is exactly the
\* correct-answer string: the label generate_labels gives that zero-based
\* position, which is also the name of that column; this for every order
\* the shuffle produces.
C19_CorrectLabel ==
    pc \in {"written", "supplied_written"} =>
        \A i \in 1..Len(csv_out.rows) :
            LET item == write_input[i]
                row == csv_out.rows[i]
                position == Decode(row.correct_answer)
            IN  (\E j \in 1..Len(item.answers) : item.answers[j] = item.correct_answer) =>
                    /\ row.correct_answer # <<>>
                    /\ position \in 0..(Len(item.answers) - 1)
                    /\ row.cells[position + 1] = << item.correct_answer >>
                    /\ row.correct_answer = generate_labels(MaxLen(write_input))[position + 1]
                    /\ csv_out.header[position + 2] = row.correct_answer

C19_Witness ==
    /\ pc = "written"
    /\ N = 3
    /\ Len(csv_out.rows) = 1
    /\ csv_out.rows[1].correct_answer = << "C" >>
    /\ csv_out.rows[1].cells[3] = << expanded_questions[1].correct_answer >>
    /\ expanded_questions[1].answers[3] = expanded_questions[1].correct_answer

\* A pass has run and fallen short.
FellShort ==
    /\ pc = "draw"
    /\ attempts > 0
    /\ Cardinality(distractors_floats) < needed

\* C20: for a question whose four options are equal and every N in 2..10
\* some pass of the schedule has at least N - 1 admissible values (numerals
\* of the pass's precision inside its interval, not negative when no option
\* is, not the correct answer): a pass that falls short is never the last
\* one and never later than the second, and the pass reached when the first
\* three are over has a pool of N - 1 values or more, so sampling that
\* meets the pool fills the collection and the error is not raised.
C20_DegenerateSucceeds ==
    /\ FellShort => expansions_done < 2 /\ expansions_done < max_expansions
    /\ (pc = "draw" /\ expansions_done >= 2) =>
           Cardinality(Pool(lower_bound, upper_bound, current_decimals, q.options,
                            q.correct_answer)) >= needed
    /\ (pc = "draw" /\ attempts > 0 /\ ~FellShort) =>
           /\ Cardinality(distractors_floats) = needed
           /\ \A val \in distractors_floats :
                  /\ Val(val) # Val(q.correct_answer)
                  /\ lower_bound <= Val(val) /\ Val(val) <= upper_bound
                  /\ allow_negative(q.options) \/ Val(val) >= 0

C20_Witness ==
    /\ pc = "draw"
    /\ N = 10
    /\ Val(q.correct_answer) = 0
    /\ expansions_done = 2
    /\ Cardinality(distractors_floats) = 9
    /\ draws = 2 * needed * AttemptsFactor + needed

\* The option column a selector cell names: the letter once the blanks
\* around it are dropped and it is put in upper case.
SelectedColumn(sel) ==
    CASE sel \in {"A", "a"} -> 1
      [] sel \in {"B", " b"} -> 2
      [] sel = "C" -> 3
      [] sel = "D" -> 4

\* The float is the number the cell shows.
ShowsCell(f, cell) ==
    Val(f) * Pow(10, cell.dec) = (IF cell.neg THEN -1 ELSE 1) * cell.digits * Pow(10, FD)

\* The options of a record that equal its correct answer.
EqualToCorrect(rec) ==
    {j \in 1..Len(rec.options) : FloatEq(rec.options[j], rec.correct_answer)}

\* Record i of the list the reader returned is the one of row i of the file:
\* four options in the order A, B, C, D and the option the selector names.
ReadsRow(i) ==
    LET rec == questions_data[i]
        row == csv_rows[i]
    IN  /\ rec.question = row.Question
        /\ Len(rec.options) = 4
        /\ ShowsCell(rec.options[1], row.OptionA)
        /\ ShowsCell(rec.options[2], row.OptionB)
        /\ ShowsCell(rec.options[3], row.OptionC)
        /\ ShowsCell(rec.options[4], row.OptionD)
        /\ rec.correct_answer = rec.options[SelectedColumn(row.CorrectAnswer)]

\* The reader has returned the list of a file of the batch.
ListRead == questions_data # <<>> /\ pc \notin {"start", "read_failed"}

\* C21 as stated: every record returned by read_numeric_questions_from_csv
\* has the four options in the order A, B, C, D and a correct_answer that
\* is the option the selector names and equals exactly one of the options.
C21_ExactlyOne ==
    ListRead =>
        /\ Len(questions_data) = Len(csv_rows)
        /\ \A i \in 1..Len(questions_data) :
               ReadsRow(i) /\ Cardinality(EqualToCorrect(questions_data[i])) = 1

\* C21 as amended: every record has the four options in the order A, B, C,
\* D and a correct_answer that is the option the selector names; it equals
\* that option alone when the four options are pairwise different, and every
\* option of the same value otherwise.
C21_SelectedOption ==
    ListRead =>
        /\ Len(questions_data) = Len(csv_rows)
        /\ \A i \in 1..Len(questions_data) :
               LET rec == questions_data[i]
                   k == SelectedColumn(csv_rows[i].CorrectAnswer)
               IN  /\ ReadsRow(i)
                   /\ EqualToCorrect(rec) =
                          {j \in 1..4 : FloatEq(rec.options[j], rec.options[k])}
                   /\ k \in EqualToCorrect(rec)
                   /\ (\A j \in 1..4 : j # k => ~FloatEq(rec.options[j], rec.options[k]))
                          => EqualToCorrect(rec) = {k}

C21_Witness ==
    /\ pc = "gen"
    /\ Len(questions_data) = 1
    /\ csv_rows[1].CorrectAnswer = " b"
    /\ EqualToCorrect(questions_data[1]) = {2}
    /\ Val(questions_data[1].options[1]) < 0

\* The letter of number d, A being letter 0.
LetterOf(d) == CHOOSE ch \in {Letters[j] : j \in 1..26} : LetterDigit(ch) = d

\* C22: for every n and every index i of 0..n-1 the label of i has the
\* length L = get_label_length(n), holds letters of A-Z only, and its
\* character at position k (0 the leftmost) is the letter of number
\* floor(i / 26^(L-1-k)) mod 26: the base-26 digits of i, most-significant
\* first, padded with A on the left.
C22_Base26Digits ==
    (pc = "labelled" /\ lab_n >= 1) =>
        \A i \in 0..(lab_n - 1) :
            LET label == labels[i + 1]
                L == lab_length
            IN  /\ Len(label) = L
                /\ \A k \in 0..(L - 1) :
                       /\ label[k + 1] \in {Letters[j] : j \in 1..26}
                       /\ label[k + 1] = LetterOf((i \div Pow(26, L - 1 - k)) % 26)

C22_Witness ==
    /\ pc = "labelled"
    /\ lab_n = 26 * 26 + 1
    /\ labels[28] = << "A", "B", "B" >>
    /\ labels[26 * 26] = << "A", "Z", "Z" >>

\* C23: for every n >= 1 the labels of generate_labels(n) share one length
\* and grow strictly, in string order, with the index; so a reader that
\* sorts the option column names as strings gets the labels, and with them
\* the answers, back in index order, and the label of every position, the
\* correct one included, still names that position.
C23_SortedIsIndexOrder ==
    /\ (pc \in {"labelled", "sampled"} /\ lab_n >= 1) =>
           \A i \in 1..(lab_n - 1) :
               /\ Len(labels[i]) = Len(labels[i + 1])
               /\ StrLess(labels[i], labels[i + 1])
    /\ pc = "sampled" =>
           /\ Len(option_labels) = lab_n
           /\ \A p \in 1..lab_n : option_labels[p] = labels[p]

C23_Witness ==
    /\ pc = "sampled"
    /\ lab_n = 26 * 26 + 1
    /\ option_labels[27] = << "A", "B", "A" >>
    /\ option_labels[lab_n] = << "B", "A", "A" >>

====
